---- MODULE Spec2Model ----
(***************************************************************************)
(* Model of csu_radartools/csu_fhc.py: the winter blend run_winter and the *)
(* summer fuzzy classifier csu_fhc_summer with its private helpers.        *)
(*                                                                         *)
(* Arrays are sequences indexed by bin.  Scores are exact rationals        *)
(* <<n, d>>; d = 0 encodes the IEEE results of a division by zero:         *)
(* <<1, 0>> is inf and <<0, 0>> is nan.  A Python None is the empty        *)
(* sequence <<>> and a present value v is <<v>>.                           *)
(***************************************************************************)
EXTENDS Integers, Sequences, FiniteSets, TLC

VARIABLES
    \* ---- run_winter ----
    wpc,          \* position inside run_winter
    scan_type, verbose,
    meltlev,      \* regime mask returned by melting_layer
    fh_ml,        \* melt category as returned by melting_layer (history)
    fh,           \* melt category, rewritten in place (2 -> 5)
    scores_warm, scores_cold,
    fhwarm, fhcold,
    winter_hca,
    notice,       \* the grid notice was printed
    wret,         \* value returned by run_winter
    \* ---- csu_fhc_summer ----
    pc,           \* position inside csu_fhc_summer
    args,         \* the call's arguments
    use_temp,     \* local use_temp (reassigned at line 231)
    radar_data, fhc_vars,
    pol_flag, trap_flag,
    weight_sum, varlist,
    c,            \* loop index of _get_test_list
    test,         \* local 'test' of _get_test_list
    test_list,
    steps,        \* helpers called so far (history)
    ret           \* value returned (or exception raised) by csu_fhc_summer

wvars == <<wpc, scan_type, verbose, meltlev, fh_ml, fh, scores_warm,
           scores_cold, fhwarm, fhcold, winter_hca, notice, wret>>
svars == <<pc, args, use_temp, radar_data, fhc_vars, pol_flag, trap_flag,
           weight_sum, varlist, c, test, test_list, steps, ret>>
vars == <<wvars, svars>>

\* ------------------------------------------------------------------ bounds
NBins == 1        \* bins per winter array
MaxVal == 1       \* polarimetric / reflectivity sample values 0..MaxVal
MaxT == 2         \* temperature sample values 0..MaxT
NTypes == 2       \* species in the membership tables (len(sets['DZ']['m']))

Bins == 1..NBins

\* ------------------------------------------------------- array primitives
\* arr[mask] = src[mask]   (numpy boolean-mask assignment)
MaskAssign(arr, mask, src) ==
    [b \in DOMAIN arr |-> IF mask[b] THEN src[b] ELSE arr[b]]

\* arr[mask] = v
MaskFill(arr, mask, v) ==
    [b \in DOMAIN arr |-> IF mask[b] THEN v ELSE arr[b]]

\* arr == v, elementwise
EqMask(arr, v) == [b \in DOMAIN arr |-> arr[b] = v]

\* np.argmax over one column: 0-based index of the first maximum
ArgMax(col) ==
    (CHOOSE i \in 1..Len(col) :
        /\ \A j \in 1..Len(col) : col[j] <= col[i]
        /\ \A j \in 1..(i - 1) : col[j] < col[i]) - 1

\* np.argmax(scores, axis=0) + 1 for a (species x bins) stack
ArgMaxAxis0Plus1(scores) ==
    [b \in Bins |-> ArgMax([s \in 1..Len(scores) |-> scores[s][b]]) + 1]

\* ================================================================ run_winter
\* Score columns (one value per species) the external csu_fhc_winter can
\* return for one bin: each species winning outright, and an exact tie.
WarmCols == {<<1, 0>>, <<0, 1>>, <<1, 1>>}
ColdCols == {<<1, 0, 0, 0>>, <<0, 1, 0, 0>>, <<0, 0, 1, 0>>, <<0, 0, 0, 1>>,
             <<1, 1, 1, 1>>}

ScanTypes == {"ppi", "rhi", "grid"}
MeltLevels == {0, 1, 2}
MeltCategories == {-1, 0, 1, 2}

\* (species x bins) stack built from one column per bin
StackOf(cols, n) == [s \in 1..n |-> [b \in Bins |-> cols[b][s]]]

\* fhwarm[fhwarm == 1] = 6 ; fhwarm[fhwarm == 2] = 7
RemapWarm(a) ==
    LET a1 == MaskFill(a, EqMask(a, 1), 6)
    IN  MaskFill(a1, EqMask(a1, 2), 7)

\* fh[np.where(fh == 2)] = 5
RemapWetSnow(a) == MaskFill(a, EqMask(a, 2), 5)

\* Faulty variant: the fh == 0 override is missing.
WinterBlend_NoUnclassified(ml, f, fw, fc, st) ==
    LET h0 == [b \in Bins |-> 0 - 1]
        h1 == MaskAssign(h0, EqMask(ml, 0), fw)
        h2 == MaskAssign(h1, EqMask(ml, 2), fc)
        h3 == IF st = "grid" THEN MaskAssign(h2, EqMask(ml, 1), fc) ELSE h2
        h4 == MaskFill(h3, EqMask(f, 5), 5)
    IN  MaskFill(h4, EqMask(f, 0 - 1), 0 - 1)

\* Faulty variant: the wet-snow override is applied before the regime assignment.
WinterBlend_WetSnowFirst(ml, f, fw, fc, st) ==
    LET h0 == [b \in Bins |-> 0 - 1]
        h1 == MaskFill(h0, EqMask(f, 5), 5)
        h2 == MaskAssign(h1, EqMask(ml, 0), fw)
        h3 == MaskAssign(h2, EqMask(ml, 2), fc)
        h4 == IF st = "grid" THEN MaskAssign(h3, EqMask(ml, 1), fc) ELSE h3
        h5 == MaskFill(h4, EqMask(f, 0 - 1), 0 - 1)
    IN  MaskFill(h5, EqMask(f, 0), 0 - 1)

\* Faulty variant: the grid substitution takes the warm-regime result.
WinterBlend_GridWarm(ml, f, fw, fc, st) ==
    LET h0 == [b \in Bins |-> 0 - 1]
        h1 == MaskAssign(h0, EqMask(ml, 0), fw)
        h2 == MaskAssign(h1, EqMask(ml, 2), fc)
        h3 == IF st = "grid" THEN MaskAssign(h2, EqMask(ml, 1), fw) ELSE h2
        h4 == MaskFill(h3, EqMask(f, 5), 5)
        h5 == MaskFill(h4, EqMask(f, 0 - 1), 0 - 1)
    IN  MaskFill(h5, EqMask(f, 0), 0 - 1)

\* Lines 141-154: the blend of the warm and cold results by regime, then
\* the wet-snow override, then the two no-data overrides.
WinterBlend(ml, f, fw, fc, st) ==
    LET h0 == [b \in Bins |-> 0 - 1]
        h1 == MaskAssign(h0, EqMask(ml, 0), fw)
        h2 == MaskAssign(h1, EqMask(ml, 2), fc)
        h3 == IF st = "grid" THEN MaskAssign(h2, EqMask(ml, 1), fc) ELSE h2
        h4 == MaskFill(h3, EqMask(f, 5), 5)
        h5 == MaskFill(h4, EqMask(f, 0 - 1), 0 - 1)
    IN  MaskFill(h5, EqMask(f, 0), 0 - 1)

NoArray == <<>>

WinterInit ==
    /\ wpc = "start"
    /\ scan_type \in ScanTypes
    /\ verbose \in BOOLEAN
    /\ meltlev = NoArray /\ fh_ml = NoArray /\ fh = NoArray
    /\ scores_warm = NoArray /\ scores_cold = NoArray
    /\ fhwarm = NoArray /\ fhcold = NoArray
    /\ winter_hca = NoArray
    /\ notice = FALSE
    /\ wret = [returned |-> FALSE, winter_hca |-> NoArray,
               scores |-> NoArray, hca |-> NoArray]

\* Lines 111-115: the external melting-layer detector returns the regime
\* mask and the melt categorisation.
MeltingLayer ==
    /\ wpc = "start"
    /\ \E ml \in [Bins -> MeltLevels], f \in [Bins -> MeltCategories] :
          /\ meltlev' = ml
          /\ fh_ml' = f
          /\ fh' = f
    /\ wpc' = "hid"
    /\ UNCHANGED <<scan_type, verbose, scores_warm, scores_cold, fhwarm,
                   fhcold, winter_hca, notice, wret>>

\* Lines 120-134: warm and cold scoring by the external csu_fhc_winter,
\* arg-max + 1, and the warm remap to 6 / 7.
WarmColdHid ==
    /\ wpc = "hid"
    /\ \E wc \in [Bins -> WarmCols], cc \in [Bins -> ColdCols] :
          /\ scores_warm' = StackOf(wc, 2)
          /\ scores_cold' = StackOf(cc, 4)
          /\ fhwarm' = RemapWarm(ArgMaxAxis0Plus1(StackOf(wc, 2)))
          /\ fhcold' = ArgMaxAxis0Plus1(StackOf(cc, 4))
    /\ wpc' = "remap"
    /\ UNCHANGED <<scan_type, verbose, meltlev, fh_ml, fh, winter_hca,
                   notice, wret>>

\* Lines 136-139
WetSnowRemap ==
    /\ wpc = "remap"
    /\ fh' = RemapWetSnow(fh)
    /\ wpc' = "blend"
    /\ UNCHANGED <<scan_type, verbose, meltlev, fh_ml, scores_warm,
                   scores_cold, fhwarm, fhcold, winter_hca, notice, wret>>

\* Lines 141-154
Blend ==
    /\ wpc = "blend"
    /\ winter_hca' = WinterBlend(meltlev, fh, fhwarm, fhcold, scan_type)
    /\ notice' = (scan_type = "grid" /\ verbose)
    /\ wpc' = "return"
    /\ UNCHANGED <<scan_type, verbose, meltlev, fh_ml, fh, scores_warm,
                   scores_cold, fhwarm, fhcold, wret>>

\* Lines 161-166
WinterReturn ==
    /\ wpc = "return"
    /\ \E return_scores \in BOOLEAN :
          wret' = IF return_scores
                  THEN [returned |-> TRUE, winter_hca |-> winter_hca,
                        scores |-> <<scores_warm, scores_cold>>,
                        hca |-> <<fh, fhwarm, fhcold>>]
                  ELSE [returned |-> TRUE, winter_hca |-> winter_hca,
                        scores |-> NoArray, hca |-> NoArray]
    /\ wpc' = "done"
    /\ UNCHANGED <<scan_type, verbose, meltlev, fh_ml, fh, scores_warm,
                   scores_cold, fhwarm, fhcold, winter_hca, notice>>

\* ============================================================ csu_fhc_summer
\* ---------------------------------------------------------------- rationals
RECURSIVE GCD(_, _)
GCD(x, y) == IF y = 0 THEN x ELSE GCD(y, x % y)

\* Normal form of the nonnegative value n/d; n/0 is inf (n > 0) or nan (n = 0).
Rat(n, d) ==
    IF d = 0 THEN <<IF n = 0 THEN 0 ELSE 1, 0>>
    ELSE LET g == GCD(n, d) IN <<n \div g, d \div g>>

RNaN == <<0, 0>>
RInf == <<1, 0>>
RZero == <<0, 1>>
ROne == <<1, 1>>
IsFinite(p) == p[2] # 0
RAdd(p, q) == Rat(p[1] * q[2] + q[1] * p[2], p[2] * q[2])
RMul(p, q) == Rat(p[1] * q[1], p[2] * q[2])
RDiv(p, q) == Rat(p[1] * q[2], p[2] * q[1])
RLess(p, q) == p[1] * q[2] < q[1] * p[2]
RLeq(p, q) == p[1] * q[2] <= q[1] * p[2]

RECURSIVE RSum(_)
RSum(terms) == IF terms = <<>> THEN RZero
               ELSE RAdd(Head(terms), RSum(Tail(terms)))

RECURSIVE Pow(_, _)
Pow(x, n) == IF n = 0 THEN 1 ELSE x * Pow(x, n - 1)

\* np.argmax over a column of scores: a nan counts as the maximum, and the
\* first maximum wins.
ArgMaxScores(col) ==
    IF \E i \in 1..Len(col) : col[i] = RNaN
    THEN (CHOOSE i \in 1..Len(col) :
             col[i] = RNaN /\ \A j \in 1..(i - 1) : col[j] # RNaN) - 1
    ELSE (CHOOSE i \in 1..Len(col) :
             /\ \A j \in 1..Len(col) : ~RLess(col[i], col[j])
             /\ \A j \in 1..(i - 1) : RLess(col[j], col[i])) - 1

\* ------------------------------------------------------------------ strings
\* A Python str is the sequence of its characters.
S_hybrid == <<"h", "y", "b", "r", "i", "d">>
S_linear == <<"l", "i", "n", "e", "a", "r">>
S_nonlinear == <<"n", "o", "n", "l", "i", "n", "e", "a", "r">>
S_fuzzy == <<"f", "u", "z", "z", "y">>

\* Python's  pat in s  for two strings
StrIn(pat, s) ==
    \E i \in 0..(Len(s) - Len(pat)) : SubSeq(s, i + 1, i + Len(pat)) = pat

\* --------------------------------------------------------------- parameters
Keys == {"DZ", "DR", "KD", "RH", "LD", "T"}
Species == 0..(NTypes - 1)

DEFAULT_WEIGHTS ==
    [DZ |-> <<3, 2>>, DR |-> <<4, 5>>, KD |-> <<1, 1>>, RH |-> <<4, 5>>,
     LD |-> <<1, 2>>, T |-> <<2, 5>>]
ZERO_WEIGHTS == [k \in Keys |-> RZero]
UNIT_WEIGHTS == [k \in Keys |-> ROne]

\* Membership parameters of the provider: species c peaks at the value c.
sets == [k \in Keys |-> [a |-> [s \in Species |-> 1],
                         b |-> [s \in Species |-> 1],
                         m |-> [s \in Species |-> s]]]

\* Trapezoid breakpoints of species s for temperature.
TrapPoints(s) == <<s - 2, s, s + 1, s + 2>>

\* Trapezoidal temperature membership of species s.
get_hid_traps(s, t) ==
    LET p == TrapPoints(s) IN
    IF t <= p[1] \/ t >= p[4] THEN RZero
    ELSE IF t < p[2] THEN Rat(t - p[1], p[2] - p[1])
    ELSE IF t <= p[3] THEN ROne
    ELSE Rat(p[4] - t, p[4] - p[3])

\* 1.0/(1.0 + (((x_arr - m)/a)**2)**b)
hid_beta(x, a, b, m) ==
    Rat(Pow(a * a, b), Pow(a * a, b) + Pow((x - m) * (x - m), b))

\* hid_beta_f(sz, x, a, b, m): the compiled twin of hid_beta
hid_beta_f(x, a, b, m) == hid_beta(x, a, b, m)

\* hid_beta_f(sz, radar_data[key], sets[key]['a'][c], ..['b'][c], ..['m'][c])
Beta(rd, key, s) ==
    hid_beta_f(rd[key], sets[key].a[s], sets[key].b[s], sets[key].m[s])

None == <<>>
NoDict == [k \in {} |-> 0]
RetRunning == [kind |-> "running", hid |-> <<>>, scores |-> <<>>]
RetNone == [kind |-> "None", hid |-> <<>>, scores |-> <<>>]
RetRaise(e) == [kind |-> e, hid |-> <<>>, scores |-> <<>>]
Unbound == [st |-> "unbound", val |-> RZero]
Bound(v) == [st |-> "bound", val |-> v]

\* Faulty variant: the reflectivity guard is missing.
DzMissing_Never(a) == FALSE

\* Line 227:  if dz is None
DzMissing(a) == a.dz = None

\* Lines 319-347.  radar_data[key] is the flattened array of the variable
\* (one bin here); shp and sz are bound only when dz is present, so the
\* return at line 347 raises without it.
_populate_vars(dz, zdr, kdp, rho, ldr, T) ==
    LET var == [DZ |-> dz, DR |-> zdr, KD |-> kdp, RH |-> rho, LD |-> ldr,
                T |-> T]
        present == {k \in Keys : var[k] # None}
    IN  [raised |-> dz = None,
         radar_data |-> [k \in present |-> var[k][1]],
         fhc_vars |-> [k \in Keys |-> IF k \in present THEN 1 ELSE 0]]

\* Lines 310-316
_get_pol_flag(fv) ==
    fv["DR"] = 1 \/ fv["KD"] = 1 \/ fv["LD"] = 1 \/ fv["RH"] = 1

\* Lines 350-368.  ok = FALSE is the (None, None) return.
_get_weight_sum(fv, weights, method) ==
    LET vl == IF StrIn(S_hybrid, method) THEN <<"DR", "KD", "RH", "LD">>
              ELSE <<"DR", "KD", "RH", "LD", "T", "DZ">>
    IN  IF ~StrIn(S_hybrid, method) /\ ~StrIn(S_linear, method)
        THEN [ok |-> FALSE, weight_sum |-> None, varlist |-> None]
        ELSE [ok |-> TRUE,
              weight_sum |-> RSum([i \in 1..Len(vl) |->
                                RMul(<<fv[vl[i]], 1>>, weights[vl[i]])]),
              varlist |-> vl]

\* for key in varlist if key in radar_data.keys()
PresentKeys(vl, rd) == SelectSeq(vl, LAMBDA k : k \in DOMAIN rd)

\* Lines 371-382
_calculate_test(fv, weights, rd, vl, ws, s) ==
    LET ks == PresentKeys(vl, rd)
        terms == [i \in 1..Len(ks) |->
                    RMul(RMul(<<fv[ks[i]], 1>>, weights[ks[i]]),
                         Beta(rd, ks[i], s))]
    IN  RDiv(RSum(terms), ws)

\* Lines 385-410: the T term is the bare trapezoid value.
_calculate_test_trap(fv, weights, rd, vl, ws, s) ==
    LET ks == PresentKeys(vl, rd)
        b_val == [i \in 1..Len(ks) |->
                    IF ks[i] = "T" THEN get_hid_traps(s, rd["T"])
                    ELSE RMul(RMul(<<fv[ks[i]], 1>>, weights[ks[i]]),
                              Beta(rd, ks[i], s))]
    IN  RDiv(RSum(b_val), ws)

\* test *= v : needs test to be bound
InPlaceMul(t, v) ==
    IF t.st = "bound" THEN Bound(RMul(t.val, v))
    ELSE [st |-> "raised", val |-> RZero]

\* Lines 425-469: the body of the species loop, from the value 'test' has on
\* entry to the value it has at the append.
LoopBody(fv, weights, rd, vl, ws, pf, tf, ut, method, s, t) ==
    IF StrIn(S_hybrid, method) THEN
        LET t1 == IF pf
                  THEN (IF tf
                        THEN Bound(_calculate_test_trap(fv, weights, rd, vl, ws, s))
                        ELSE Bound(_calculate_test(fv, weights, rd, vl, ws, s)))
                  ELSE t
            t2 == IF ut
                  THEN (IF pf THEN InPlaceMul(t1, Beta(rd, "T", s))
                        ELSE Bound(Beta(rd, "T", s)))
                  ELSE t1
        IN  IF fv["DZ"] = 1
            THEN (IF pf \/ ut THEN InPlaceMul(t2, Beta(rd, "DZ", s))
                  ELSE Bound(Beta(rd, "DZ", s)))
            ELSE t2
    ELSE IF StrIn(S_linear, method) THEN
        IF pf
        THEN (IF tf
              THEN Bound(_calculate_test_trap(fv, weights, rd, vl, ws, s))
              ELSE Bound(_calculate_test(fv, weights, rd, vl, ws, s)))
        ELSE t
    ELSE t

\* Lines 423-471 from species s on: test_list.append(test) raises
\* UnboundLocalError when 'test' was never assigned.
RECURSIVE TestLoop(_, _, _, _, _, _, _, _, _, _, _, _)
TestLoop(fv, weights, rd, vl, ws, pf, tf, ut, method, s, t, lst) ==
    IF s = Cardinality(DOMAIN sets["DZ"].m)
    THEN [raised |-> FALSE, test_list |-> lst]
    ELSE LET t1 == LoopBody(fv, weights, rd, vl, ws, pf, tf, ut, method, s, t)
         IN  IF t1.st # "bound"
             THEN [raised |-> TRUE, test_list |-> lst]
             ELSE TestLoop(fv, weights, rd, vl, ws, pf, tf, ut, method,
                           s + 1, t1, Append(lst, t1.val))

\* Lines 413-471
_get_test_list(fv, weights, rd, vl, ws, pf, tf, ut, method) ==
    TestLoop(fv, weights, rd, vl, ws, pf, tf, ut, method, 0, Unbound, <<>>)

\* Lines 227-263: the guard, the forced use_temp, the population of the
\* dictionaries, the flags and fhc_vars['T'] = 0 without temperature.
SummerEntry(a) ==
    LET ut == IF a.T = None THEN FALSE ELSE a.use_temp
        pv == _populate_vars(a.dz, a.zdr, a.kdp, a.rho, a.ldr, a.T)
        out == [returns |-> FALSE, ret |-> RetRunning, use_temp |-> ut,
                radar_data |-> pv.radar_data,
                fhc_vars |-> IF ut THEN pv.fhc_vars
                             ELSE [pv.fhc_vars EXCEPT !["T"] = 0],
                pol_flag |-> _get_pol_flag(pv.fhc_vars),
                trap_flag |-> a.use_trap]
    IN  IF DzMissing(a)
        THEN [out EXCEPT !.returns = TRUE, !.ret = RetNone]
        ELSE IF pv.raised
        THEN [out EXCEPT !.returns = TRUE, !.ret = RetRaise("UnboundLocalError")]
        ELSE out

\* Lines 276-290
SummerFinish(mu, return_scores) ==
    IF return_scores
    THEN [kind |-> "scores", hid |-> <<>>, scores |-> mu]
    ELSE [kind |-> "hid", hid |-> <<ArgMaxScores(mu) + 1>>, scores |-> <<>>]

\* Lines 171-290: the whole call as a function of its arguments.
csu_fhc_summer(a) ==
    LET e == SummerEntry(a) IN
    IF e.returns THEN e.ret
    ELSE LET w == _get_weight_sum(e.fhc_vars, a.weights, a.method) IN
         IF ~w.ok THEN RetNone
         ELSE LET tl == _get_test_list(e.fhc_vars, a.weights, e.radar_data,
                                       w.varlist, w.weight_sum, e.pol_flag,
                                       e.trap_flag, e.use_temp, a.method)
              IN  IF tl.raised THEN RetRaise("UnboundLocalError")
                  ELSE SummerFinish(tl.test_list, a.return_scores)

\* ------------------------------------------------------------------ actions
Opt(S) == {None} \cup {<<v>> : v \in S}
Methods == {S_hybrid, S_linear, S_nonlinear, S_fuzzy}
WeightTables == {DEFAULT_WEIGHTS, ZERO_WEIGHTS, UNIT_WEIGHTS}

ArgSet ==
    [dz : Opt(0..MaxVal), zdr : Opt(0..MaxVal), kdp : Opt({0}),
     rho : Opt({0}), ldr : Opt({0}), T : Opt(0..MaxT),
     use_temp : BOOLEAN, weights : WeightTables, method : Methods,
     use_trap : BOOLEAN, return_scores : BOOLEAN]

SummerLocalsUnset ==
    /\ use_temp = FALSE
    /\ radar_data = NoDict /\ fhc_vars = NoDict
    /\ pol_flag = FALSE /\ trap_flag = FALSE
    /\ weight_sum = None /\ varlist = None
    /\ c = 0
    /\ test = Unbound
    /\ test_list = <<>>
    /\ steps = <<>>
    /\ ret = RetRunning

SummerInit ==
    /\ pc = "start"
    /\ args \in ArgSet
    /\ SummerLocalsUnset

\* Lines 227-263
Enter ==
    /\ pc = "start"
    /\ LET e == SummerEntry(args) IN
          /\ ret' = e.ret
          /\ pc' = IF e.returns THEN "done" ELSE "weights"
          /\ steps' = IF DzMissing(args) THEN steps
                      ELSE IF e.returns THEN <<"_populate_vars">>
                      ELSE <<"_populate_vars", "get_mbf_sets_summer",
                             "_get_pol_flag">>
          /\ IF e.returns
             THEN UNCHANGED <<use_temp, radar_data, fhc_vars, pol_flag,
                              trap_flag>>
             ELSE /\ use_temp' = e.use_temp
                  /\ radar_data' = e.radar_data
                  /\ fhc_vars' = e.fhc_vars
                  /\ pol_flag' = e.pol_flag
                  /\ trap_flag' = e.trap_flag
    /\ UNCHANGED <<args, weight_sum, varlist, c, test, test_list>>

\* Lines 265-268
GetWeightSum ==
    /\ pc = "weights"
    /\ LET w == _get_weight_sum(fhc_vars, args.weights, args.method) IN
          /\ weight_sum' = w.weight_sum
          /\ varlist' = w.varlist
          /\ pc' = IF w.ok THEN "loop" ELSE "done"
          /\ ret' = IF w.ok THEN ret ELSE RetNone
    /\ steps' = Append(steps, "_get_weight_sum")
    /\ UNCHANGED <<args, use_temp, radar_data, fhc_vars, pol_flag, trap_flag,
                   c, test, test_list>>

\* Lines 424-470: one iteration of the species loop of _get_test_list
TestIteration ==
    /\ pc = "loop"
    /\ c < Cardinality(DOMAIN sets["DZ"].m)
    /\ LET t1 == LoopBody(fhc_vars, args.weights, radar_data, varlist,
                          weight_sum, pol_flag, trap_flag, use_temp,
                          args.method, c, test)
       IN  IF t1.st = "bound"
           THEN /\ test' = t1
                /\ test_list' = Append(test_list, t1.val)
                /\ c' = c + 1
                /\ UNCHANGED <<pc, ret>>
           ELSE /\ ret' = RetRaise("UnboundLocalError")
                /\ pc' = "done"
                /\ UNCHANGED <<c, test, test_list>>
    /\ steps' = IF c = 0 THEN Append(steps, "_get_test_list") ELSE steps
    /\ UNCHANGED <<args, use_temp, radar_data, fhc_vars, pol_flag, trap_flag,
                   weight_sum, varlist>>

\* Lines 273-290
Finish ==
    /\ pc = "loop"
    /\ c = Cardinality(DOMAIN sets["DZ"].m)
    /\ ret' = SummerFinish(test_list, args.return_scores)
    /\ pc' = "done"
    /\ UNCHANGED <<args, use_temp, radar_data, fhc_vars, pol_flag, trap_flag,
                   weight_sum, varlist, c, test, test_list, steps>>

\* --------------------------------------------------------- specifications
\* No summer call is running.
SummerIdle ==
    /\ pc = "idle"
    /\ args = [dz |-> None, zdr |-> None, kdp |-> None, rho |-> None,
               ldr |-> None, T |-> None, use_temp |-> TRUE,
               weights |-> DEFAULT_WEIGHTS, method |-> S_hybrid,
               use_trap |-> FALSE, return_scores |-> FALSE]
    /\ SummerLocalsUnset

\* No winter call is running.
WinterIdle ==
    /\ wpc = "idle"
    /\ scan_type = "ppi"
    /\ verbose = TRUE
    /\ meltlev = NoArray /\ fh_ml = NoArray /\ fh = NoArray
    /\ scores_warm = NoArray /\ scores_cold = NoArray
    /\ fhwarm = NoArray /\ fhcold = NoArray
    /\ winter_hca = NoArray
    /\ notice = FALSE
    /\ wret = [returned |-> FALSE, winter_hca |-> NoArray,
               scores |-> NoArray, hca |-> NoArray]

\* One call of csu_fhc_summer
Init == SummerInit /\ WinterIdle

Next ==
    \/ Enter /\ UNCHANGED wvars
    \/ GetWeightSum /\ UNCHANGED wvars
    \/ TestIteration /\ UNCHANGED wvars
    \/ Finish /\ UNCHANGED wvars

Spec == Init /\ [][Next]_vars

\* One call of run_winter
InitWinter == WinterInit /\ SummerIdle

NextWinter ==
    \/ MeltingLayer /\ UNCHANGED svars
    \/ WarmColdHid /\ UNCHANGED svars
    \/ WetSnowRemap /\ UNCHANGED svars
    \/ Blend /\ UNCHANGED svars
    \/ WinterReturn /\ UNCHANGED svars

SpecWinter == InitWinter /\ [][NextWinter]_vars

\* =================================================================== claims
WinterBlended == wpc \in {"return", "done"}

\* C1: after the blend of run_winter, every bin whose melting-layer category
\* is -1 (no data) or 0 (unclassified) has the final winter category -1,
\* whatever its regime mask, the scan type and the warm and cold results.
C1_NoDataWins ==
    WinterBlended =>
        \A b \in Bins :
            fh_ml[b] \in {0 - 1, 0} =>
                /\ winter_hca[b] = 0 - 1
                /\ wret.returned => wret.winter_hca[b] = 0 - 1

\* A warm bin whose warm result is 7 and whose melt category is 0 was
\* returned as -1.
C1_Witness ==
    /\ wpc = "done"
    /\ \E b \in Bins :
          /\ fh_ml[b] = 0 /\ meltlev[b] = 0 /\ fhwarm[b] = 7
          /\ wret.winter_hca[b] = 0 - 1

\* C2: after the blend of run_winter, every bin whose melting-layer category
\* is 2 (wet snow) has the final winter category 5, whatever its regime
\* mask, the scan type and the warm and cold results.
C2_WetSnowWins ==
    WinterBlended =>
        \A b \in Bins :
            fh_ml[b] = 2 =>
                /\ winter_hca[b] = 5
                /\ wret.returned => wret.winter_hca[b] = 5

\* A cold bin with melt category 2 was returned as 5, not as the cold
\* arg-max.
C2_Witness ==
    /\ wpc = "done"
    /\ \E b \in Bins :
          /\ fh_ml[b] = 2 /\ meltlev[b] = 2
          /\ fhcold[b] # 5
          /\ wret.winter_hca[b] = 5

\* C3: with scan_type 'grid', every transition bin (regime mask 1) that is
\* neither wet snow (2) nor no-data (-1, 0) in the melting-layer category
\* has as final winter category the cold-regime result, arg-max over the
\* cold scores + 1, with and without verbose.
C3_GridTransitionCold ==
    (WinterBlended /\ scan_type = "grid") =>
        \A b \in Bins :
            (meltlev[b] = 1 /\ fh_ml[b] \notin {2, 0 - 1, 0}) =>
                /\ winter_hca[b] = ArgMaxAxis0Plus1(scores_cold)[b]
                /\ wret.returned =>
                       wret.winter_hca[b] = ArgMaxAxis0Plus1(scores_cold)[b]

\* A silent (verbose off) grid call returned the cold result at a
\* transition bin with melt category 1.
C3_Witness ==
    /\ wpc = "done"
    /\ scan_type = "grid"
    /\ ~verbose /\ ~notice
    /\ \E b \in Bins :
          /\ meltlev[b] = 1 /\ fh_ml[b] = 1
          /\ wret.winter_hca[b] = fhcold[b]
          /\ fhcold[b] = 3

\* C4: csu_fhc_summer with dz = None returns None for every combination of
\* the other arguments, before any helper is called (no variable
\* population, no parameter lookup, no scoring), and raises nothing.
C4_NoReflectivityFails ==
    (args.dz = None /\ pc \notin {"start", "idle"}) =>
        /\ pc = "done"
        /\ ret = RetNone
        /\ steps = <<>>
        /\ radar_data = NoDict /\ fhc_vars = NoDict
        /\ test_list = <<>>

\* A call without dz but with zdr, kdp and T present returned None.
C4_Witness ==
    /\ pc = "done"
    /\ args.dz = None /\ args.zdr # None /\ args.kdp # None /\ args.T # None
    /\ args.use_temp /\ args.return_scores
    /\ ret.kind = "None"

\* C5: csu_fhc_summer with dz present and a method string other than
\* 'linear' and 'hybrid', also one that merely contains one of the two
\* names, fails: no category array and no score cube is returned, and no
\* score is computed (stated for the default weights).
C5_UnknownMethodFails ==
    (/\ pc = "done"
     /\ args.dz # None
     /\ args.method \notin {S_linear, S_hybrid}
     /\ args.weights = DEFAULT_WEIGHTS)
        => (ret.kind \notin {"hid", "scores"} /\ test_list = <<>>)

\* C6: whenever the sum of the applicable weights is zero where a score is
\* to be divided by it (a polarimetric variable is present), the call
\* returns None and no per-species score has been computed.
C6_ZeroWeightSumFails ==
    (pc = "done" /\ weight_sum = RZero /\ pol_flag)
        => (ret = RetNone /\ test_list = <<>>)

Succeeded == pc = "done" /\ ret.kind \in {"hid", "scores"}

\* C7: in a successful 'linear' or 'hybrid' call (nonnegative weights,
\* memberships in [0,1], a positive normaliser wherever one is divided by)
\* every score of the cube lies in [0,1].
C7_ScoresInUnitInterval ==
    (/\ Succeeded
     /\ args.method \in {S_linear, S_hybrid}
     /\ pol_flag => weight_sum # RZero) =>
        \A i \in 1..Len(test_list) :
            IsFinite(test_list[i]) /\ RLeq(test_list[i], ROne)

SameReturn(r1, r2) ==
    /\ r1.kind = r2.kind
    /\ r1.hid = r2.hid
    /\ r1.scores = r2.scores

\* C8: with use_temp = False the supplied temperature is not used: the call
\* returns the same as the call with any other value of T.
C8_TemperatureUnused ==
    (pc = "done" /\ ~args.use_temp /\ args.T # None) =>
        \A t2 \in 0..MaxT :
            SameReturn(ret, csu_fhc_summer([args EXCEPT !.T = <<t2>>]))

\* C9: under 'hybrid' with temperature and trapezoidal mode, the score of
\* species s is the polarimetric core (1 without polarimetric variable)
\* times the trapezoidal temperature membership times the DZ membership.
C9_HybridTrapezoidFold ==
    (Succeeded /\ args.method = S_hybrid /\ use_temp /\ trap_flag) =>
        \A i \in 1..Len(test_list) :
            LET core == IF pol_flag
                        THEN _calculate_test_trap(fhc_vars, args.weights,
                                 radar_data, varlist, weight_sum, i - 1)
                        ELSE ROne
            IN  test_list[i] =
                    RMul(RMul(core, get_hid_traps(i - 1, radar_data["T"])),
                         Beta(radar_data, "DZ", i - 1))

\* C10: under 'linear' and 'hybrid', for every subset of present optional
\* variables, the loop appends for every species a value that was assigned
\* in that species' iteration: the call never fails on an unassigned 'test'
\* and ends with one score per species.
C10_ScoreAssigned ==
    (pc = "done" /\ args.dz # None /\ args.method \in {S_linear, S_hybrid}) =>
        /\ ret.kind # "UnboundLocalError"
        /\ ret.kind # "None" => Len(test_list) = NTypes

====
